---- MODULE Spec2Model ----
(***************************************************************************)
(* Model of WasmEdge::Runtime::Instance::TableInstance                     *)
(* (include/runtime/instance/table.h).                                     *)
(*                                                                         *)
(* The table is a std::vector<RefVariant> with a fixed limit; the engine   *)
(* calls one member function at a time and then takes the result.  A call  *)
(* in progress or just returned is kept in `last` (arguments, the storage  *)
(* before the call, the returned value and what was logged), so that the   *)
(* contracts of the member functions are state predicates.                 *)
(*                                                                         *)
(* uint32_t is WordBits wide and size_t / uint64_t are SizeBits wide; the  *)
(* code has 32 and 64, the model keeps the 1:2 ratio at a small width so   *)
(* that every value of the narrow type can be enumerated.                  *)
(***************************************************************************)
EXTENDS Integers, Sequences, FiniteSets, TLC

\* ---------------------------------------------------------------- bounds
\* width of uint32_t in the model
WordBits == 2
\* longest storage the model lets a table reach
MaxLen == 3
\* arguments are drawn from 0..MaxArg and the largest uint32_t
MaxArg == 2
\* number of distinct reference values (0 is the null reference)
NumRefs == 2
\* longest source sequence handed to setRefs that is not a view of the table
MaxSlice == 2

\* ------------------------------------------------------- integer widths
SizeBits == 2 * WordBits

UINT32_MAX == 2^WordBits - 1

U32(x) == x % (2^WordBits)

U64(x) == x % (2^SizeBits)

Min2(a, b) == IF a <= b THEN a ELSE b

Max2(a, b) == IF a >= b THEN a ELSE b

\* ---------------------------------------------------------------- values
UnknownRef == 0

RefVariant == 0 .. (NumRefs - 1)

ArgVals == (0 .. Min2(MaxArg, UINT32_MAX)) \cup {UINT32_MAX}

Limits ==
  { l \in [Min : 0 .. Min2(MaxLen, UINT32_MAX), HasMax : BOOLEAN, Max : ArgVals] :
      /\ l.HasMax => l.Min <= l.Max
      /\ ~l.HasMax => l.Max \in {0, UINT32_MAX} }

VARIABLES
  Lim,         \* the AST::Limit the table was constructed from
  HasMaxSize,  \* TableInstance::HasMaxSize
  MaxSize,     \* TableInstance::MaxSize
  Refs,        \* TableInstance::Refs
  last,        \* the call in progress / just returned
  held         \* a Span returned by getRefs that the caller still holds

vars == <<Lim, HasMaxSize, MaxSize, Refs, last, held>>

NoCall == [op |-> "none"]

NoSpan == [kind |-> "none"]

\* ------------------------------------------------------ returned values
RetBool(b) == [kind |-> "bool", b |-> b]

RetVoid == [kind |-> "void"]

RetRef(v) == [kind |-> "ref", val |-> v]

RetSpan(o, n) == [kind |-> "span", off |-> o, len |-> n]

Unexpect(c) == [kind |-> "unexpect", code |-> c]

Fault == [kind |-> "fault"]

InfoBoundary(o, n, b) == [Offset |-> o, Size |-> n, Limit |-> b]

\* ------------------------------------------------------------ accessors
getSize == U32(Len(Refs))

getBoundIdx == U32(Max2(U32(Len(Refs)), 1) - 1)

\* the sum taken in uint32_t
checkAccessBoundWrap32(Offset, Length) ==
  LET AccessLen == U32(Offset + Length)
  IN  AccessLen <= Len(Refs)

\* the comparison made strict
checkAccessBoundStrict(Offset, Length) ==
  LET AccessLen == U64(U64(Offset) + U64(Length))
  IN  AccessLen < Len(Refs)

checkAccessBound(Offset, Length) ==
  LET AccessLen == U64(U64(Offset) + U64(Length))
  IN  AccessLen <= Len(Refs)

\* ---------------------------------------------------------- construction
TableInstance(l) ==
  /\ Lim = l
  /\ HasMaxSize = l.HasMax
  /\ MaxSize = l.Max
  /\ Refs = [i \in 1 .. l.Min |-> UnknownRef]
  /\ last = NoCall
  /\ held = NoSpan

Init == \E l \in Limits : TableInstance(l)

\* ------------------------------------------------------------- growTable
\* the declared maximum ignored
MaxSizeCapedNoLimit == UINT32_MAX

MaxSizeCaped ==
  IF HasMaxSize THEN Min2(MaxSize, UINT32_MAX) ELSE UINT32_MAX

\* the comparison off by one
growFailsOffByOne(Count) == Count >= U64(MaxSizeCaped - Len(Refs))

\* line 71: Count is promoted to size_t, the subtraction is done in size_t
growFails(Count) == Count > U64(MaxSizeCaped - Len(Refs))

\* resize(Count) in place of resize(size + Count)
growRefsResizeToCount(Count, Val) == [i \in 1 .. Count |-> Val]

\* lines 74-75: resize to size + Count, then fill the last Count slots
growRefs(Count, Val) ==
  LET resized == [i \in 1 .. (Len(Refs) + Count) |->
                    IF i <= Len(Refs) THEN Refs[i] ELSE UnknownRef]
  IN  [i \in 1 .. Len(resized) |->
         IF i > Len(resized) - Count THEN Val ELSE resized[i]]

growTableCall(Count, Val, nargs) ==
  /\ last = NoCall
  /\ IF growFails(Count)
       THEN /\ Refs' = Refs
            /\ last' = [op |-> "growTable", nargs |-> nargs, Count |-> Count,
                        Val |-> Val, pre |-> Refs, ret |-> RetBool(FALSE),
                        log |-> <<>>]
       ELSE \* storage longer than MaxLen is not explored (at WordBits = 2
            \* the code's own ceiling, UINT32_MAX, is reached first)
            /\ Len(Refs) + Count <= MaxLen
            /\ Refs' = growRefs(Count, Val)
            /\ last' = [op |-> "growTable", nargs |-> nargs, Count |-> Count,
                        Val |-> Val, pre |-> Refs, ret |-> RetBool(TRUE),
                        log |-> <<>>]
  /\ UNCHANGED <<Lim, HasMaxSize, MaxSize, held>>

growTable(Count, Val) == growTableCall(Count, Val, 2)

growTable1(Count) == growTableCall(Count, UnknownRef, 1)

\* --------------------------------------------------------------- getRefs
getRefs(Offset, Length) ==
  /\ last = NoCall
  /\ IF ~checkAccessBound(Offset, Length)
       THEN last' = [op |-> "getRefs", Offset |-> Offset, Length |-> Length,
                     pre |-> Refs, ret |-> Unexpect("TableOutOfBounds"),
                     log |-> <<InfoBoundary(Offset, Length, getBoundIdx)>>]
       ELSE last' = [op |-> "getRefs", Offset |-> Offset, Length |-> Length,
                     pre |-> Refs, ret |-> RetSpan(Offset, Length),
                     log |-> <<>>]
  /\ UNCHANGED <<Lim, HasMaxSize, MaxSize, Refs, held>>

\* -------------------------------------------------------------- fillRefs
\* line 130: std::fill_n(Refs.begin() + Offset, Length, Val)
fillN(Val, Offset, Length) ==
  [i \in 1 .. Len(Refs) |->
     IF Offset < i /\ i <= Offset + Length THEN Val ELSE Refs[i]]

fillRefs(Val, Offset, Length) ==
  /\ last = NoCall
  /\ IF ~checkAccessBound(Offset, Length)
       THEN /\ Refs' = Refs
            /\ last' = [op |-> "fillRefs", Val |-> Val, Offset |-> Offset,
                        Length |-> Length, pre |-> Refs,
                        ret |-> Unexpect("TableOutOfBounds"),
                        log |-> <<InfoBoundary(Offset, Length, getBoundIdx)>>]
       ELSE /\ Refs' = fillN(Val, Offset, Length)
            /\ last' = [op |-> "fillRefs", Val |-> Val, Offset |-> Offset,
                        Length |-> Length, pre |-> Refs, ret |-> RetVoid,
                        log |-> <<>>]
  /\ UNCHANGED <<Lim, HasMaxSize, MaxSize, held>>

\* ------------------------------------------------- getRefAddr/setRefAddr
getRefAddr(Idx) ==
  /\ last = NoCall
  /\ IF Idx >= Len(Refs)
       THEN last' = [op |-> "getRefAddr", Idx |-> Idx, pre |-> Refs,
                     ret |-> Unexpect("TableOutOfBounds"),
                     log |-> <<InfoBoundary(Idx, 1, getBoundIdx)>>]
       ELSE last' = [op |-> "getRefAddr", Idx |-> Idx, pre |-> Refs,
                     ret |-> RetRef(Refs[Idx + 1]), log |-> <<>>]
  /\ UNCHANGED <<Lim, HasMaxSize, MaxSize, Refs, held>>

setRefAddr(Idx, Val) ==
  /\ last = NoCall
  /\ IF Idx >= Len(Refs)
       THEN /\ Refs' = Refs
            /\ last' = [op |-> "setRefAddr", Idx |-> Idx, Val |-> Val,
                        pre |-> Refs, ret |-> Unexpect("TableOutOfBounds"),
                        log |-> <<InfoBoundary(Idx, 1, getBoundIdx)>>]
       ELSE /\ Refs' = [Refs EXCEPT ![Idx + 1] = Val]
            /\ last' = [op |-> "setRefAddr", Idx |-> Idx, Val |-> Val,
                        pre |-> Refs, ret |-> RetVoid, log |-> <<>>]
  /\ UNCHANGED <<Lim, HasMaxSize, MaxSize, held>>

\* --------------------------------------------------------------- setRefs
\* A Span<const RefVariant> is either a sequence of its own or a view
\* (as returned by getRefs) of this table's storage.
ExtSlice(d) == [kind |-> "ext", data |-> d]

ViewSlice(o, n) == [kind |-> "view", off |-> o, len |-> n]

SliceSize(Slice) ==
  IF Slice.kind = "ext" THEN Len(Slice.data) ELSE Slice.len

\* line 105: Start + Length is a uint32_t sum, compared with a size_t
srcCheckFails(Slice, Start, Length) ==
  U32(Start + Length) > SliceSize(Slice)

\* lines 109-110
srcBoundIdx(Slice) == U32(Max2(U32(SliceSize(Slice)), 1) - 1)

\* *(Slice.begin() + k) with the storage as it is now; a read past the end of
\* the span has no defined value: junk stands for whatever the build reads
SliceRead(Slice, k, refs, junk) ==
  IF k < SliceSize(Slice)
    THEN IF Slice.kind = "ext" THEN Slice.data[k + 1]
         ELSE refs[Slice.off + k + 1]
    ELSE junk

\* the copy reads past the end of the span
srcOverrun(Slice, Start, Length) ==
  Length > 0 /\ Start + Length > SliceSize(Slice)

\* the destination begins inside the source range of the same storage:
\* std::copy_n makes no promise about the order that is safe here
dstInsideSrc(Slice, Offset, Start, Length) ==
  /\ Slice.kind = "view"
  /\ Slice.off + Start < Offset
  /\ Offset < Slice.off + Start + Length

\* element by element, lowest index first
RECURSIVE copyForward(_, _, _, _, _, _, _)
copyForward(refs, Slice, Start, Offset, Length, junk, i) ==
  IF i >= Length THEN refs
  ELSE copyForward(
         [j \in 1 .. Len(refs) |->
            IF j = Offset + i + 1
              THEN SliceRead(Slice, Start + i, refs, junk[i + 1])
              ELSE refs[j]],
         Slice, Start, Offset, Length, junk, i + 1)

\* as memmove: every source element is read before any is written
copyMove(refs, Slice, Start, Offset, Length, junk) ==
  [j \in 1 .. Len(refs) |->
     IF Offset < j /\ j <= Offset + Length
       THEN SliceRead(Slice, Start + (j - 1 - Offset), refs, junk[j - Offset])
       ELSE refs[j]]

\* line 115: the storages std::copy_n can leave behind
copyN(Slice, Start, Offset, Length) ==
  LET Junks == IF srcOverrun(Slice, Start, Length)
                 THEN [1 .. Length -> RefVariant]
                 ELSE {[i \in 1 .. Length |-> UnknownRef]}
  IN  { copyMove(Refs, Slice, Start, Offset, Length, junk) : junk \in Junks }
      \cup
      IF dstInsideSrc(Slice, Offset, Start, Length)
        THEN { copyForward(Refs, Slice, Start, Offset, Length, junk, 0) :
                 junk \in Junks }
        ELSE {}

setRefsCall(Slice, Offset, Start, Length) ==
  [op |-> "setRefs", Slice |-> Slice, Offset |-> Offset, Start |-> Start,
   Length |-> Length, pre |-> Refs]

\* the copy made before the source range is validated
setRefsCopyFirst(Slice, Offset, Start, Length) ==
  /\ last = NoCall
  /\ IF ~checkAccessBound(Offset, Length)
       THEN /\ Refs' = Refs
            /\ last' = setRefsCall(Slice, Offset, Start, Length) @@
                       [ret |-> Unexpect("TableOutOfBounds"),
                        log |-> <<InfoBoundary(Offset, Length, getBoundIdx)>>]
       ELSE IF srcCheckFails(Slice, Start, Length)
       THEN /\ Refs' = copyMove(Refs, Slice, Start, Offset, Length,
                                [i \in 1 .. Length |-> UnknownRef])
            /\ last' = setRefsCall(Slice, Offset, Start, Length) @@
                       [ret |-> Unexpect("TableOutOfBounds"),
                        log |-> <<InfoBoundary(Start, Length,
                                               srcBoundIdx(Slice))>>]
       ELSE /\ Refs' \in copyN(Slice, Start, Offset, Length)
            /\ last' = setRefsCall(Slice, Offset, Start, Length) @@
                       [ret |-> RetVoid, log |-> <<>>]
  /\ UNCHANGED <<Lim, HasMaxSize, MaxSize, held>>

setRefs(Slice, Offset, Start, Length) ==
  /\ last = NoCall
  /\ IF ~checkAccessBound(Offset, Length)
       THEN /\ Refs' = Refs
            /\ last' = setRefsCall(Slice, Offset, Start, Length) @@
                       [ret |-> Unexpect("TableOutOfBounds"),
                        log |-> <<InfoBoundary(Offset, Length, getBoundIdx)>>]
       ELSE IF srcCheckFails(Slice, Start, Length)
       THEN /\ Refs' = Refs
            /\ last' = setRefsCall(Slice, Offset, Start, Length) @@
                       [ret |-> Unexpect("TableOutOfBounds"),
                        log |-> <<InfoBoundary(Start, Length,
                                               srcBoundIdx(Slice))>>]
       ELSE \/ /\ Refs' \in copyN(Slice, Start, Offset, Length)
               /\ last' = setRefsCall(Slice, Offset, Start, Length) @@
                          [ret |-> RetVoid, log |-> <<>>]
            \/ /\ srcOverrun(Slice, Start, Length)
               /\ Refs' = Refs
               /\ last' = setRefsCall(Slice, Offset, Start, Length) @@
                          [ret |-> Fault, log |-> <<>>]
  /\ UNCHANGED <<Lim, HasMaxSize, MaxSize, held>>

\* ------------------------------------------------------------ the caller
\* The engine takes the result of the call.  A Span it was given is a plain
\* pointer and length: it may keep it, and nothing in the table tracks it.
Return(retain) ==
  /\ last # NoCall
  /\ last.ret # Fault
  /\ last' = NoCall
  /\ held' = IF ~retain THEN NoSpan
             ELSE IF last.ret.kind = "span" THEN last.ret
             ELSE held
  /\ UNCHANGED <<Lim, HasMaxSize, MaxSize, Refs>>

\* the engine is between two calls
Idle == last = NoCall

\* ------------------------------------------------------------ the inputs
RECURSIVE SeqsUpTo(_)
SeqsUpTo(n) ==
  IF n = 0 THEN {<<>>}
  ELSE SeqsUpTo(n - 1) \cup [1 .. n -> RefVariant]

ExtSlices == { ExtSlice(d) : d \in SeqsUpTo(MaxSlice) }

\* one source sequence of every length, its values all different where they can
PatternSlices ==
  { ExtSlice([i \in 1 .. n |-> i % NumRefs]) : n \in 0 .. MaxSlice }

\* the views getRefs hands out for the storage as it is now
ViewSlices ==
  UNION { { ViewSlice(o, n) : n \in 0 .. (Len(Refs) - o) } :
          o \in 0 .. Len(Refs) }

Next ==
  \/ Idle /\ \E c \in ArgVals, v \in RefVariant : growTable(c, v)
  \/ Idle /\ \E c \in ArgVals : growTable1(c)
  \/ Idle /\ \E o \in ArgVals, n \in ArgVals : getRefs(o, n)
  \/ Idle /\ \E s \in PatternSlices, o \in ArgVals, b \in ArgVals,
                n \in ArgVals : setRefs(s, o, b, n)
  \/ Idle /\ \E v \in RefVariant, o \in ArgVals, n \in ArgVals : fillRefs(v, o, n)
  \/ Idle /\ \E i \in ArgVals : getRefAddr(i)
  \/ Idle /\ \E i \in ArgVals, v \in RefVariant : setRefAddr(i, v)
  \/ Return(FALSE)

Spec == Init /\ [][Next]_vars

\* The table under every source setRefs can be given: any sequence of its
\* own, and any view of the table itself.
NextCopy ==
  \/ Idle /\ \E c \in ArgVals, v \in RefVariant : growTable(c, v)
  \/ Idle /\ \E i \in ArgVals, v \in RefVariant : setRefAddr(i, v)
  \/ Idle /\ \E s \in ExtSlices \cup ViewSlices, o \in ArgVals, b \in ArgVals,
                n \in ArgVals : setRefs(s, o, b, n)
  \/ Return(FALSE)

SpecCopy == Init /\ [][NextCopy]_vars

\* The table with a caller that keeps the spans it is given.
NextHold ==
  \/ Idle /\ \E c \in ArgVals, v \in RefVariant : growTable(c, v)
  \/ Idle /\ \E o \in ArgVals, n \in ArgVals : getRefs(o, n)
  \/ Idle /\ \E v \in RefVariant, o \in ArgVals, n \in ArgVals : fillRefs(v, o, n)
  \/ Idle /\ \E i \in ArgVals, v \in RefVariant : setRefAddr(i, v)
  \/ Idle /\ \E s \in PatternSlices, o \in ArgVals, b \in ArgVals,
                n \in ArgVals : setRefs(s, o, b, n)
  \/ \E r \in BOOLEAN : Return(r)

SpecHold == Init /\ [][NextHold]_vars

\* ================================================================ claims
\* In the claims sizes, sums and differences are plain integers: nothing
\* wraps.  SizeBefore is size() when the call was made.
SizeBefore == Len(last.pre)

\* max(n, 1) - 1
BoundaryOf(n) == IF n >= 1 THEN n - 1 ELSE 0

OutOfBounds == Unexpect("TableOutOfBounds")

\* the call logged exactly one boundary record, with this boundary
Reported(o, n, b) == last.log = <<InfoBoundary(o, n, b)>>

\* C1: growTable(count, v) returns true iff count <= ceiling - size, where
\* ceiling is max if hasMax and the largest uint32_t otherwise; then the
\* storage is the old storage followed by count copies of v (the null
\* reference in the one-argument form); otherwise it returns false and the
\* storage is as before.  growTable(0) returns true and changes nothing.
C1_GrowContract ==
  last.op = "growTable" =>
    LET ceiling == IF Lim.HasMax THEN Lim.Max ELSE UINT32_MAX
        ok == last.Count <= ceiling - SizeBefore
    IN  /\ last.ret = RetBool(ok)
        /\ Refs = IF ok THEN last.pre \o [i \in 1 .. last.Count |-> last.Val]
                  ELSE last.pre
        /\ last.nargs = 1 => last.Val = UnknownRef
        /\ last.Count = 0 => last.ret = RetBool(TRUE) /\ Refs = last.pre

\* a growth that exactly reaches the declared maximum, with a non-null value
C1_Witness ==
  /\ last.op = "growTable"
  /\ last.ret = RetBool(TRUE)
  /\ last.Count > 0
  /\ last.Val # UnknownRef
  /\ Lim.HasMax
  /\ SizeBefore > 0
  /\ Len(Refs) = Lim.Max

\* C2: getRefs and fillRefs succeed iff offset + length <= size, getRefAddr
\* and setRefAddr iff index + 1 <= size; every such failure, and every
\* setRefs call whose destination range exceeds size, is TableOutOfBounds
\* and reports the boundary max(size, 1) - 1.
C2_BoundsContract ==
  /\ last.op \in {"getRefs", "fillRefs"} =>
       IF last.Offset + last.Length <= SizeBefore
         THEN last.ret = IF last.op = "getRefs"
                           THEN RetSpan(last.Offset, last.Length)
                           ELSE RetVoid
         ELSE /\ last.ret = OutOfBounds
              /\ Reported(last.Offset, last.Length, BoundaryOf(SizeBefore))
  /\ last.op \in {"getRefAddr", "setRefAddr"} =>
       IF last.Idx + 1 <= SizeBefore
         THEN last.ret = IF last.op = "getRefAddr"
                           THEN RetRef(last.pre[last.Idx + 1])
                           ELSE RetVoid
         ELSE /\ last.ret = OutOfBounds
              /\ Reported(last.Idx, 1, BoundaryOf(SizeBefore))
  /\ (last.op = "setRefs" /\ last.Offset + last.Length > SizeBefore) =>
       /\ last.ret = OutOfBounds
       /\ Reported(last.Offset, last.Length, BoundaryOf(SizeBefore))

\* a range whose sum is past the largest uint32_t is refused on a table it
\* would fit in if the sum wrapped
C2_Witness ==
  /\ last.op = "fillRefs"
  /\ last.Offset = UINT32_MAX
  /\ last.Length = UINT32_MAX
  /\ U32(last.Offset + last.Length) <= SizeBefore
  /\ last.ret = OutOfBounds

\* C3: setRefs succeeds iff offset + length <= size and
\* start + length <= |source|, both sums exact; with a valid destination
\* range and an invalid source range it fails with TableOutOfBounds and
\* reports the source's boundary max(|source|, 1) - 1.
C3_SetRefsChecks ==
  last.op = "setRefs" =>
    LET dstOk == last.Offset + last.Length <= SizeBefore
        srcLen == SliceSize(last.Slice)
        srcOk == last.Start + last.Length <= srcLen
    IN  /\ (last.ret = RetVoid) <=> (dstOk /\ srcOk)
        /\ (dstOk /\ ~srcOk) =>
             /\ last.ret = OutOfBounds
             /\ Reported(last.Start, last.Length, BoundaryOf(srcLen))

\* C4: when the source is a view of the same table and its range overlaps
\* the destination range, a successful setRefs leaves in destination slot
\* offset + i the value slot start + i held before the call.
C4_OverlapSafe ==
  ( /\ last.op = "setRefs"
    /\ last.Slice.kind = "view"
    /\ last.ret = RetVoid
    /\ last.Length > 0
    /\ last.Start + last.Length <= last.Slice.len
    /\ last.Slice.off + last.Start < last.Offset + last.Length
    /\ last.Offset < last.Slice.off + last.Start + last.Length ) =>
  \A i \in 0 .. (last.Length - 1) :
    Refs[last.Offset + i + 1] = last.pre[last.Slice.off + last.Start + i + 1]

\* C5 as stated: fillRefs(v, offset, 0) succeeds and changes nothing, for
\* every offset.
C5_ZeroFillAlways ==
  (last.op = "fillRefs" /\ last.Length = 0) =>
    /\ last.ret = RetVoid
    /\ Refs = last.pre

\* C5 as amended: fillRefs(v, offset, 0) changes nothing; it succeeds iff
\* offset <= size (so it does at offset = size) and is TableOutOfBounds for
\* a larger offset.
C5_ZeroFill ==
  (last.op = "fillRefs" /\ last.Length = 0) =>
    /\ Refs = last.pre
    /\ IF last.Offset <= SizeBefore THEN last.ret = RetVoid
       ELSE last.ret = OutOfBounds

\* an empty fill at offset = size of a table that is not empty
C5_Witness ==
  /\ last.op = "fillRefs"
  /\ last.Length = 0
  /\ last.Offset = SizeBefore
  /\ SizeBefore > 0
  /\ last.ret = RetVoid

\* C6: a table constructed with hasMax and min <= max never has size > max;
\* without hasMax its size never exceeds the largest uint32_t.
C6_SizeWithinMax ==
  /\ Lim.HasMax => Len(Refs) <= Lim.Max
  /\ ~Lim.HasMax => Len(Refs) <= UINT32_MAX

\* a table grown to its declared maximum has refused to grow further
C6_Witness ==
  /\ last.op = "growTable"
  /\ last.ret = RetBool(FALSE)
  /\ last.Count > 0
  /\ Lim.HasMax
  /\ Lim.Max < UINT32_MAX
  /\ Lim.Min < Lim.Max
  /\ Len(Refs) = Lim.Max

\* C7: no step makes the size smaller, the size is never below the min
\* given at construction, and only a successful growTable with count > 0
\* changes it.
C7_SizeMonotonic ==
  /\ Len(Refs) >= Lim.Min
  /\ [][ /\ Len(Refs') >= Len(Refs)
         /\ Len(Refs') >= Lim'.Min
         /\ Lim' = Lim
         /\ Len(Refs') # Len(Refs) =>
              /\ last'.op = "growTable"
              /\ last'.ret = RetBool(TRUE)
              /\ last'.Count > 0 ]_vars

\* a table that has grown past its initial size and then been written to
C7_Witness ==
  /\ last.op \in {"setRefs", "fillRefs", "setRefAddr"}
  /\ last.ret = RetVoid
  /\ Refs # last.pre
  /\ Len(Refs) > Lim.Min

\* C8: a call that returns false (growTable) or TableOutOfBounds leaves the
\* size and every slot as they were.
C8_FailureLeavesTable ==
  (last.op # "none" /\ last.ret \in {RetBool(FALSE), OutOfBounds}) =>
    /\ Refs = last.pre
    /\ HasMaxSize = Lim.HasMax
    /\ MaxSize = Lim.Max

\* setRefs refused for its source range after its destination range passed,
\* on slots the copy would have changed
C8_Witness ==
  /\ last.op = "setRefs"
  /\ last.ret = OutOfBounds
  /\ last.Length > 0
  /\ last.Offset + last.Length <= SizeBefore
  /\ SliceSize(last.Slice) > 0
  /\ last.Start < SliceSize(last.Slice)
  /\ last.Slice.data[last.Start + 1] # last.pre[last.Offset + 1]

\* C9: a successful setRefs from a sequence that is not a view of the table
\* leaves source[start + i] in slot offset + i for every i < length and
\* everything else as it was.
C9_CopyFromSource ==
  (last.op = "setRefs" /\ last.Slice.kind = "ext" /\ last.ret = RetVoid) =>
    /\ Len(Refs) = SizeBefore
    /\ \A i \in 0 .. (last.Length - 1) :
         /\ last.Start + i < Len(last.Slice.data)
         /\ Refs[last.Offset + i + 1] = last.Slice.data[last.Start + i + 1]
    /\ \A j \in 1 .. SizeBefore :
         (j <= last.Offset \/ j > last.Offset + last.Length) =>
           Refs[j] = last.pre[j]

\* C10: no span obtained from getRefs that has slots in it is still held
\* once a later mutating call on the table has succeeded and changed it.
C10_NoSpanAcrossMutation ==
  ( /\ last.op \in {"growTable", "setRefs", "fillRefs", "setRefAddr"}
    /\ last.ret \in {RetBool(TRUE), RetVoid}
    /\ Refs # last.pre ) =>
  (held = NoSpan \/ held.len = 0)

====
